---- MODULE Spec2Model ----
(***************************************************************************)
(* A model of run-app (src/src/App.js): the route planner component, its   *)
(* one-shot location request, its route generation against the routing     *)
(* provider and the route selection; and of the tracking session engine the *)
(* specification describes (sections 4.2, 4.3 and 5 of spec.md).            *)
(*                                                                         *)
(* App.js holds two definitions of the component App, one after the other   *)
(* (lines 21-237 and lines 295-490).  Which of the two a build mounts is    *)
(* not decided by the file, so the model chooses it in Init (variable app)  *)
(* and follows the chosen definition from then on.                          *)
(*                                                                         *)
(* Units: a route length typed by the user is in tenths of a mile (the      *)
(* input's step is 0.1), a length sent to the provider is in millimetres    *)
(* (so that distance * 1609.34 is an integer), coordinates are in 1e-4      *)
(* degree, tracked distances are in hundredths of a mile.                   *)
(***************************************************************************)
EXTENDS Integers, Sequences, FiniteSets, TLC

VARIABLES app, position, routes, selectedRoute, distance, loading,
          geo, now, nCalls, calls, inflight, selBefore,
          state, samples, cumulativeDistanceMiles, elapsedSeconds,
          paceMinPerMile, nextMilestoneMiles, notified,
          subscriptions, timers, fixes, startCalls

appVars == <<app, position, routes, selectedRoute, distance, loading,
             geo, now, nCalls, calls, inflight, selBefore>>

trackVars == <<state, samples, cumulativeDistanceMiles, elapsedSeconds,
               paceMinPerMile, nextMilestoneMiles, notified,
               subscriptions, timers, fixes, startCalls>>

vars == <<appVars, selBefore, trackVars>>

(***************************************************************************)
(* Bounds of the model.                                                    *)
(***************************************************************************)
\* generate calls in one behaviour
MaxCalls == 2

\* largest reading of the clock (Date.now())
MaxClock == 1

(***************************************************************************)
(* Values.                                                                 *)
(***************************************************************************)
\* useState(null)
Null == <<>>

\* setPosition([40.7128, -74.006]) in the error callback
NYC == <<407128, -740060>>

\* the fixes the location provider may report
Fixes == {<<515074, -1278>>}

\* the values the user types in the distance input, in tenths of a mile
Distances == {5, 10}

\* useState(1): one mile
InitialDistance == 10

\* the number of requests of one generate call (four calls of
\* generateRoundTripRoute, four entries of offsets)
Count == 4

\* distance * 1609.34, for a distance in tenths of a mile, in millimetres
MmPerTenthMile == 160934

DistanceMeters(d) == d * MmPerTenthMile

\* the shortest loop the generator may request: 1600 m, in millimetres
MinLengthMm == 1600000

\* points: 4 + seedOffset
BasePoints == 4

Points(seedOffset) == BasePoints + seedOffset

\* a seed that ignores seedOffset
SeedWithoutOffset(t, seedOffset) == t

\* seed: Date.now() + seedOffset
Seed(t, seedOffset) == t + seedOffset

\* const offset = distance / 100, in 1e-4 degree for a distance in tenths of a mile
Offset(d) == d * 10

\* offsets[i] of the first definition, as signs
OffsetSigns == <<  <<1, 1>>, <<-1, 1>>, <<1, -1>>, <<-1, -1>>  >>

\* the path the provider returns for request k of call b
Geometry(b, k) == [batch |-> b, k |-> k]

\* the request generateRoundTripRoute sends: body of the POST
RoundTripRequest(b, k, pos, meters, t) ==
    [batch  |-> b, k |-> k, origin |-> pos, length |-> meters,
     points |-> Points(k), seed |-> Seed(t, k)]

\* the request the first definition sends for offsets[k]: there and back
ThereAndBackRequest(b, k, pos, offset) ==
    [batch  |-> b, k |-> k, origin |-> pos, length |-> offset,
     via    |-> <<pos[1] + OffsetSigns[k][2] * offset,
                  pos[2] + OffsetSigns[k][1] * offset>>]

\* a call of generateRoutes: results is the array the first definition pushes
\* to, got the requests Promise.all holds a value for; failed records that a
\* request of the call failed
NoCall == [phase |-> "none", results |-> <<>>, got |-> {}, failed |-> FALSE]

\* idx === selectedRoute
IsSelected(idx) == idx = selectedRoute

\* a selection that is left as it was
KeptSelected == selectedRoute

\* setSelectedRoute(0) at the end of generateRoutes
DefaultSelected == 0

\* an index one past the button's
IndexAfter(idx) == idx + 1

\* onClick={() => setSelectedRoute(idx)}
ClickedIndex(idx) == idx

\* no position set by the error callback
NoFallback == Null

\* the error callback's coordinate
FallbackPosition == NYC

(***************************************************************************)
(* The component: Init is the state after the first render and its effect. *)
(***************************************************************************)
AppInit ==
    /\ app \in {"first", "second"}
    /\ position = Null
    /\ routes = <<>>
    /\ selectedRoute = 0
    /\ distance = InitialDistance
    /\ loading = TRUE
    /\ geo = "pending"
    /\ now = 0
    /\ nCalls = 0
    /\ calls = [b \in 1..MaxCalls |-> NoCall]
    /\ inflight = {}
    /\ selBefore = 0

\* getCurrentPosition's success callback
GeoSuccess(c) ==
    /\ geo = "pending"
    /\ geo' = "done"
    /\ position' = c
    /\ loading' = FALSE
    /\ UNCHANGED <<app, routes, selectedRoute, distance, now, nCalls, calls, inflight, selBefore, trackVars>>

\* getCurrentPosition's error callback (denied, unavailable, timeout)
GeoError ==
    /\ geo = "pending"
    /\ geo' = "done"
    /\ position' = FallbackPosition
    /\ loading' = FALSE
    /\ UNCHANGED <<app, routes, selectedRoute, distance, now, nCalls, calls, inflight, selBefore, trackVars>>

\* the distance input's onChange; the input is rendered only when not loading
SetDistance(d) ==
    /\ ~loading
    /\ distance' = d
    /\ UNCHANGED <<app, position, routes, selectedRoute, loading, geo, now,
                   nCalls, calls, inflight, selBefore, trackVars>>

\* a route button's onClick; the buttons are rendered for routes.length > 1
SelectRoute(idx) ==
    /\ ~loading
    /\ Len(routes) > 1
    /\ idx \in 0..(Len(routes) - 1)
    /\ selectedRoute' = ClickedIndex(idx)
    /\ UNCHANGED <<app, position, routes, distance, loading, geo, now,
                   nCalls, calls, inflight, selBefore, trackVars>>

(***************************************************************************)
(* generateRoutes of the second definition (lines 324-347) and the         *)
(* continuation of its await Promise.all.                                  *)
(***************************************************************************)
\* the clock readings of the four calls of generateRoundTripRoute, made one
\* after the other before the first await
ClockReadings ==
    {ts \in [1..Count -> now..MaxClock] :
        \A k \in 1..(Count - 1) : ts[k] <= ts[k + 1]}

\* a set that lacks the response to the last request
LoopsButLast(b) == [k \in 1..(Count - 1) |-> Geometry(b, k)]

\* Promise.all's value: the responses in the order of the requests
Loops(b) == [k \in 1..Count |-> Geometry(b, k)]

\* the button is rendered only when not loading; if (!position) return
GenerateRoutesSecond(ts) ==
    /\ app = "second"
    /\ ~loading
    /\ position # Null
    /\ nCalls < MaxCalls
    /\ LET b == nCalls + 1
           distanceMeters == DistanceMeters(distance)
       IN  /\ nCalls' = b
           /\ loading' = TRUE
           /\ routes' = <<>>
           /\ inflight' = inflight \cup
                  {RoundTripRequest(b, k, position, distanceMeters, ts[k]) : k \in 1..Count}
           /\ calls' = [calls EXCEPT ![b] =
                  [phase |-> "running", results |-> <<>>, got |-> {}, failed |-> FALSE]]
           /\ now' = ts[Count]
    /\ UNCHANGED <<app, position, selectedRoute, distance, geo, selBefore, trackVars>>

\* one fetch settles: ok is response.ok and a body that parses.  The first
\* failure rejects Promise.all (catch, finally) and the values it held are
\* dropped; nothing awaits the call's other fetches any more, so they leave
\* the set of awaited requests with it.  The last success fulfils Promise.all
\* (setRoutes, setSelectedRoute, finally).
RespondSecond(r, ok) ==
    /\ app = "second"
    /\ r \in inflight
    /\ inflight' = IF calls[r.batch].phase = "running" /\ ~ok
                    THEN {q \in inflight : q.batch # r.batch}
                    ELSE inflight \ {r}
    /\ LET b == r.batch
           c == calls[b]
           got == c.got \cup {r.k}
       IN  IF c.phase # "running"
           THEN UNCHANGED <<routes, selectedRoute, loading, calls, selBefore>>
           ELSE IF ~ok
           THEN /\ calls' = [calls EXCEPT ![b].phase = "rejected", ![b].failed = TRUE,
                                          ![b].got = {}]
                /\ loading' = FALSE
                /\ UNCHANGED <<routes, selectedRoute, selBefore>>
           ELSE IF got = 1..Count
           THEN /\ routes' = Loops(b)
                /\ selectedRoute' = DefaultSelected
                /\ selBefore' = selectedRoute
                /\ loading' = FALSE
                /\ calls' = [calls EXCEPT ![b].phase = "resolved", ![b].got = {}]
           ELSE /\ calls' = [calls EXCEPT ![b].got = got]
                /\ UNCHANGED <<routes, selectedRoute, loading, selBefore>>
    /\ UNCHANGED <<app, position, distance, geo, now, nCalls, trackVars>>

(***************************************************************************)
(* generateRoutes of the first definition (lines 49-98): one request at a  *)
(* time, each in its own try/catch.                                        *)
(***************************************************************************)
\* up to the first await: results = [], the request for offsets[0] is sent
GenerateRoutesFirst ==
    /\ app = "first"
    /\ ~loading
    /\ position # Null
    /\ nCalls < MaxCalls
    /\ LET b == nCalls + 1
       IN  /\ nCalls' = b
           /\ inflight' = inflight \cup {ThereAndBackRequest(b, 1, position, Offset(distance))}
           /\ calls' = [calls EXCEPT ![b] =
                  [phase |-> "running", results |-> <<>>, got |-> {}, failed |-> FALSE]]
    /\ UNCHANGED <<app, position, routes, selectedRoute, distance, loading, geo, now, selBefore, trackVars>>

\* the await of request k returns or throws: push or log, then the next round
\* of the loop, or after the last one setRoutes(results); setSelectedRoute(0)
RespondFirst(r, ok) ==
    /\ app = "first"
    /\ r \in inflight
    /\ LET b == r.batch
           c == calls[b]
           results == IF ok THEN Append(c.results, Geometry(b, r.k)) ELSE c.results
           failed == c.failed \/ ~ok
       IN  IF r.k < Count
           THEN /\ inflight' = (inflight \ {r}) \cup
                       {ThereAndBackRequest(b, r.k + 1, r.origin, r.length)}
                /\ calls' = [calls EXCEPT ![b].results = results, ![b].failed = failed]
                /\ UNCHANGED <<routes, selectedRoute, selBefore>>
           ELSE /\ inflight' = inflight \ {r}
                /\ routes' = results
                /\ selectedRoute' = DefaultSelected
                /\ selBefore' = selectedRoute
                /\ calls' = [calls EXCEPT ![b].results = <<>>, ![b].failed = failed,
                                          ![b].phase = "resolved"]
    /\ UNCHANGED <<app, position, distance, loading, geo, now, nCalls, trackVars>>

Next ==
    \/ \E c \in Fixes : GeoSuccess(c)
    \/ GeoError
    \/ \E d \in Distances : SetDistance(d)
    \/ \E idx \in 0..(Count - 1) : SelectRoute(idx)
    \/ \E ts \in ClockReadings : GenerateRoutesSecond(ts)
    \/ \E r \in inflight, ok \in BOOLEAN : RespondSecond(r, ok)
    \/ GenerateRoutesFirst
    \/ \E r \in inflight, ok \in BOOLEAN : RespondFirst(r, ok)

(***************************************************************************)
(* The tracking session (spec.md, sections 3, 4.2, 4.3 and 5).  Positions   *)
(* lie on one line, in hundredths of a mile from its origin, so that the    *)
(* distance between two of them is the absolute difference.                 *)
(***************************************************************************)
\* samples accepted in one session
MaxSamples == 3

\* seconds of one session
MaxSeconds == 2

\* calls of start that find the session Active, per session
MaxStarts == 2

\* the positions the feed reports
TrackPositions == {0, 30, 100}

\* the milestone interval: 0.25 mile
MilestoneStep == 25

\* distanceMiles(a, b)
distanceMiles(a, b) == IF a >= b THEN a - b ELSE b - a

\* at most the next threshold, however far the distance jumped
CrossedOnce(cum, next) == IF cum >= next THEN <<next>> ELSE <<>>

\* the Milestone Detector: the thresholds crossed, in increasing order
RECURSIVE Crossed(_, _)
Crossed(cum, next) ==
    IF cum >= next THEN <<next>> \o Crossed(cum, next + MilestoneStep) ELSE <<>>

\* the Milestone Detector: the new nextMilestoneMiles
NextMilestone(cum, next) == next + MilestoneStep * Len(Crossed(cum, next))

\* paceMinPerMile = (elapsedSeconds / 60) / cumulativeDistanceMiles, as the
\* fraction <<numerator, denominator>>; <<0, 1>> when it is undefined
Pace(elapsed, cum) ==
    IF elapsed > 0 /\ cum > 0 THEN <<elapsed * 100, 60 * cum>> ELSE <<0, 1>>

\* n copies of sample s
Copies(s, n) == [i \in 1..n |-> s]

\* a start that never finds the session Active
NeverActive == FALSE

\* start's guard: the session is already Active
AlreadyActive == state = "Active"

TrackIdle ==
    /\ state = "Idle"
    /\ samples = <<>>
    /\ cumulativeDistanceMiles = 0
    /\ elapsedSeconds = 0
    /\ paceMinPerMile = <<0, 1>>
    /\ nextMilestoneMiles = MilestoneStep
    /\ notified = <<>>
    /\ subscriptions = 0
    /\ timers = 0
    /\ fixes = 0
    /\ startCalls = 0

\* start(origin): a no-op while Active; otherwise a full reset, a
\* subscription to the position feed and a timer
Start ==
    /\ IF AlreadyActive
       THEN /\ startCalls < MaxStarts
            /\ startCalls' = startCalls + 1
            /\ UNCHANGED <<state, samples, cumulativeDistanceMiles, elapsedSeconds,
                           paceMinPerMile, nextMilestoneMiles, notified,
                           subscriptions, timers, fixes>>
       ELSE /\ state' = "Active"
            /\ samples' = <<>>
            /\ cumulativeDistanceMiles' = 0
            /\ elapsedSeconds' = 0
            /\ paceMinPerMile' = <<0, 1>>
            /\ nextMilestoneMiles' = MilestoneStep
            /\ notified' = <<>>
            /\ subscriptions' = subscriptions + 1
            /\ timers' = timers + 1
            /\ fixes' = 0
            /\ startCalls' = 0
    /\ UNCHANGED appVars

\* the feed reports a fix: every live subscription hands it to ingestSample,
\* which appends it, adds the distance from the previous sample and runs
\* checkMilestones
IngestSample(s) ==
    /\ state = "Active"
    /\ Len(samples) + subscriptions <= MaxSamples
    /\ LET cum == IF samples = <<>>
                  THEN cumulativeDistanceMiles
                  ELSE cumulativeDistanceMiles + distanceMiles(samples[Len(samples)], s)
       IN  /\ samples' = samples \o Copies(s, subscriptions)
           /\ cumulativeDistanceMiles' = cum
           /\ notified' = notified \o Crossed(cum, nextMilestoneMiles)
           /\ nextMilestoneMiles' = NextMilestone(cum, nextMilestoneMiles)
    /\ fixes' = fixes + 1
    /\ UNCHANGED <<state, elapsedSeconds, paceMinPerMile, subscriptions, timers,
                   startCalls, appVars>>

\* tick(elapsedSeconds): the 1-second timer
Tick ==
    /\ state = "Active"
    /\ elapsedSeconds < MaxSeconds
    /\ elapsedSeconds' = elapsedSeconds + 1
    /\ paceMinPerMile' = Pace(elapsedSeconds + 1, cumulativeDistanceMiles)
    /\ UNCHANGED <<state, samples, cumulativeDistanceMiles, nextMilestoneMiles,
                   notified, subscriptions, timers, fixes, startCalls, appVars>>

\* stop(): freezes the derived fields and releases the feed and the timer
Stop ==
    /\ state = "Active"
    /\ state' = "Stopped"
    /\ subscriptions' = 0
    /\ timers' = 0
    /\ UNCHANGED <<samples, cumulativeDistanceMiles, elapsedSeconds, paceMinPerMile,
                   nextMilestoneMiles, notified, fixes, startCalls, appVars>>

TrackNext ==
    \/ Start
    \/ \E s \in TrackPositions : IngestSample(s)
    \/ Tick
    \/ Stop

Init == AppInit /\ TrackIdle

Spec == Init /\ [][Next]_vars

TrackSpec == Init /\ [][TrackNext]_vars

(***************************************************************************)
(* The claims.                                                             *)
(***************************************************************************)
\* the calls of generateRoutes made so far
Made == 1..nCalls

\* the candidates of the current set that call b produced
FromCall(b) == {i \in 1..Len(routes) : routes[i].batch = b}

\* C1: route generation is all-or-nothing: once a call of generateRoutes in
\* which at least one provider request failed has ended, the candidate set
\* holds no candidate of that call (never the part of its requests that
\* succeeded).
C1_AllOrNothing ==
    \A b \in Made :
        (calls[b].failed /\ calls[b].phase # "running") => FromCall(b) = {}

\* C2: the step that ends a call of generateRoutes all of whose requests
\* succeeded leaves exactly Count candidates, the call's own, in the order of
\* its requests, and the selected index 0, whatever was selected before.
C2_SuccessReplacesSet ==
    [][\A b \in 1..MaxCalls :
          (/\ calls[b].phase = "running"
           /\ calls'[b].phase = "resolved"
           /\ ~calls'[b].failed)
          => /\ Len(routes') = Count
             /\ \A i \in 1..Count : routes'[i] = [batch |-> b, k |-> i]
             /\ selectedRoute' = 0]_vars

\* C2 witness: a second call has succeeded while a candidate other than 0 of
\* the earlier set was selected.
C2_Witness ==
    /\ nCalls = 2
    /\ calls[2].phase = "resolved"
    /\ ~calls[2].failed
    /\ selBefore # 0
    /\ Len(routes) = Count
    /\ FromCall(2) = 1..Count
    /\ selectedRoute = 0

\* C3: a call of generateRoutes (second definition, which converts the
\* distance to metres) whose distance converts to less than 1600 m sends no
\* request to the routing provider.
C3_ShortRouteSendsNothing ==
    [][(app = "second" /\ nCalls' # nCalls /\ DistanceMeters(distance) < MinLengthMm)
          => inflight' = inflight]_vars

\* C4: late results of an older call never overwrite the candidate set of a
\* newer one: once the newest call has resolved, every candidate of the set
\* is the newest call's.
C4_NoStaleOverwrite ==
    (nCalls >= 1 /\ calls[nCalls].phase = "resolved")
        => \A i \in 1..Len(routes) : routes[i].batch = nCalls

\* C5: a candidate set that is not empty has exactly one selected candidate:
\* the selected index is an index of the set.
C5_OneSelected ==
    routes # <<>> =>
        /\ selectedRoute \in 0..(Len(routes) - 1)
        /\ Cardinality({i \in 0..(Len(routes) - 1) : IsSelected(i)}) = 1

\* C5 witness: after a call that failed in part and a later selection, the
\* last candidate of a set of several is the selected one.
C5_Witness ==
    /\ \E b \in Made : calls[b].failed /\ calls[b].phase # "running"
    /\ Len(routes) > 1
    /\ selectedRoute = Len(routes) - 1

\* C6: selecting candidate idx changes the selection only: idx is selected
\* and no other candidate is, the candidate set is the same and no request is
\* sent.
C6_SelectOnlySelects ==
    [][\A idx \in 0..(Count - 1) :
          SelectRoute(idx)
          => /\ selectedRoute' = idx
             /\ \A i \in 0..(Len(routes) - 1) : IsSelected(i)' <=> (i = idx)
             /\ routes' = routes
             /\ inflight' = inflight
             /\ nCalls' = nCalls
             /\ calls' = calls]_vars

\* C6 witness: candidate 2 of a set of four is selected.
C6_Witness ==
    /\ Len(routes) = Count
    /\ selectedRoute = 2
    /\ ~loading

\* C7: a failed location request is not fatal: its callback sets the fallback
\* coordinate and ends the loading state, and after either outcome the
\* position is defined and route generation can be invoked.
C7_LocationFailureRecovers ==
    /\ [](geo = "done" => position # Null)
    /\ []((geo = "done" /\ ~loading /\ nCalls < MaxCalls)
             => ENABLED (GenerateRoutesFirst \/ \E ts \in ClockReadings : GenerateRoutesSecond(ts)))
    /\ [][GeoError => (position' = NYC /\ ~loading')]_vars
    /\ [][(geo = "pending" /\ geo' = "done") => ~loading']_vars

\* C7 witness: the location request failed and route generation was invoked
\* from the fallback coordinate.
C7_Witness ==
    /\ geo = "done"
    /\ position = NYC
    /\ nCalls >= 1
    /\ \E r \in inflight : r.origin = NYC

\* C10: the requests of one call of the second definition carry seeds that
\* increase strictly with k, each a clock reading plus k, point counts 4 + k,
\* and the same origin and the same length.
C10_DistinctSeeds ==
    app = "second" =>
        /\ \A r \in inflight :
              /\ r.points = 4 + r.k
              /\ r.origin = position
              /\ (r.seed - r.k) \in 0..now
        /\ \A r1, r2 \in inflight :
              (r1.batch = r2.batch /\ r1.k < r2.k)
              => /\ r1.seed < r2.seed
                 /\ r1.seed - r1.k <= r2.seed - r2.k
                 /\ r1.length = r2.length
                 /\ r1.origin = r2.origin

\* C10 witness: the four requests of a call are awaited and the clock did not
\* move between the first and the last of them.
C10_Witness ==
    /\ app = "second"
    /\ \E b \in Made : Cardinality({r \in inflight : r.batch = b}) = Count
    /\ \E r1, r4 \in inflight :
          /\ r1.batch = r4.batch
          /\ r1.k = 1
          /\ r4.k = Count
          /\ r1.seed - 1 = r4.seed - Count

\* the thresholds reached by distance cum, each once, in increasing order
Reached(cum) == [i \in 1..(cum \div 25) |-> 25 * i]

\* C8: after each distance update every threshold reached has been notified
\* exactly once, in increasing order, and cumulativeDistanceMiles is below
\* nextMilestoneMiles; a session at 1.0 mile has had the four notifications
\* 0.25, 0.5, 0.75 and 1.0 and nextMilestoneMiles is 1.25.
C8_MilestoneCatchUp ==
    /\ notified = Reached(cumulativeDistanceMiles)
    /\ nextMilestoneMiles = 25 * (Len(notified) + 1)
    /\ cumulativeDistanceMiles < nextMilestoneMiles
    /\ cumulativeDistanceMiles = 100
          => (notified = <<25, 50, 75, 100>> /\ nextMilestoneMiles = 125)

\* C8 witness: one update took the session from 0 to 1.0 mile.
C8_Witness ==
    /\ samples = <<0, 100>>
    /\ cumulativeDistanceMiles = 100
    /\ notified = <<25, 50, 75, 100>>
    /\ nextMilestoneMiles = 125

\* C9: start is idempotent while the session is Active: it changes neither
\* the distance, the samples nor the threshold, one subscription and one
\* timer are live, and every fix is a sample once.
C9_StartIdempotent ==
    /\ [](state = "Active" => (subscriptions = 1 /\ timers = 1))
    /\ [](Len(samples) = fixes)
    /\ [][(state = "Active" /\ startCalls' # startCalls)
             => UNCHANGED <<state, samples, cumulativeDistanceMiles, elapsedSeconds,
                            paceMinPerMile, nextMilestoneMiles, notified,
                            subscriptions, timers, fixes>>]_vars

\* C9 witness: start was called on an Active session that had accumulated
\* distance, and samples went on arriving once each.
C9_Witness ==
    /\ state = "Active"
    /\ startCalls >= 1
    /\ cumulativeDistanceMiles > 0
    /\ Len(samples) = MaxSamples
    /\ subscriptions = 1

====
